---- MODULE Spec2Model ----
(***************************************************************************)
(* State-machine model of the PoliChat widget                              *)
(* (src/src/components/PoliChat.tsx).                                      *)
(*                                                                         *)
(* The widget's React state is the model's state.  Every async handler is  *)
(* split at its awaits: the part before the await is one action (it        *)
(* issues a call, kept in `calls` together with the values the handler's   *)
(* closure captured), the remote side answering the call is one action     *)
(* (Serve), and the continuation after the await is one action (Resume).   *)
(* The session/message store and the answering service are the             *)
(* environment; texts are sequences of one-character strings.              *)
(***************************************************************************)
EXTENDS Integers, Sequences, FiniteSets, TLC

\* ---------------------------------------------------------------- bounds
MaxOps == 3           \* handler invocations that issue a network call
MaxFaults == 1        \* remote calls answered with an error
MaxInFlight == 2      \* network calls outstanding at the same time

\* ------------------------------------------------------ program constants
PreviewLen == 30      \* substring(0, 30) and length > 30

NoSession == 0        \* currentSessionId === null
NoUser == "none"      \* useAuth() gives no user
UserId == "u1"        \* user.id of the authenticated user
NoToast == "none"

Ellipsis == <<".", ".", ".">>
NewChatTitle == "New Chat"
UntitledTitle == "Untitled Chat"
NoTitle == ""

ToastHistoryFailed == "Failed to load chat history."
ToastCreateLogin == "You need to be logged in to create a chat session."
ToastCreateFailed == "Failed to create a new chat."
ToastLoadFailed == "Failed to load chat messages."
ToastDeleteOk == "Chat deleted successfully."
ToastDeleteFailed == "Failed to delete chat. Please try again."
ToastSendLogin == "You need to be logged in to send messages."
ToastSendFailed == "Failed to get a response. Please try again."

\* ------------------------------------------------------------------ texts
Digits == <<"0", "1", "2", "3", "4", "5", "6", "7", "8", "9">>

\* A text of n characters whose i-th character tells its position.
Text(n) == [i \in 1..n |-> Digits[(i % 10) + 1]]

\* What the user can have typed into the input field.
Inputs == { <<>>, <<" ", " ">>, <<" ", "h", "i", " ">> }

\* What the answering service can answer: a text just over the preview length.
Answers == { Text(PreviewLen + 1) }

IsSpace(c) == c \in {" ", "\t", "\n"}

RECURSIVE TrimStart(_)
TrimStart(s) ==
    IF s = <<>> THEN <<>>
    ELSE IF IsSpace(Head(s)) THEN TrimStart(Tail(s)) ELSE s

RECURSIVE TrimEnd(_)
TrimEnd(s) ==
    IF s = <<>> THEN <<>>
    ELSE IF IsSpace(s[Len(s)]) THEN TrimEnd(SubSeq(s, 1, Len(s) - 1)) ELSE s

\* String.prototype.trim
Trim(s) == TrimEnd(TrimStart(s))

Min(a, b) == IF a < b THEN a ELSE b

\* String.prototype.substring(from, to), 0 <= from <= to
Substring(s, from, to) == SubSeq(s, from + 1, Min(to, Len(s)))

\* Mutant of PreviewOf: the ellipsis already at the preview length.
PreviewOfEllipsisAtLimit(content) ==
    Substring(content, 0, PreviewLen)
        \o (IF Len(content) >= PreviewLen THEN Ellipsis ELSE <<>>)

\* content.substring(0, 30) + (content.length > 30 ? '...' : '')
PreviewOf(content) ==
    Substring(content, 0, PreviewLen)
        \o (IF Len(content) > PreviewLen THEN Ellipsis ELSE <<>>)

\* ------------------------------------------------------------------ state
VARIABLES
    isOpen,            \* useState(false)
    isMaximized,       \* useState(false)
    isHistoryOpen,     \* useState(false)
    messages,          \* useState<Message[]>([])
    chatSessions,      \* useState<ChatSession[]>([])
    input,             \* useState("")
    isLoading,         \* useState(false)
    currentSessionId,  \* useState<string | null>(null)
    user,              \* useAuth().user
    dbSessions,        \* rows of table chat_sessions
    dbMessages,        \* rows of table chat_messages
    nextId,            \* the next id uuidv4() hands out
    calls,             \* network calls in flight, with their handler's closure
    ops,               \* handler invocations that issued a network call so far
    faults,            \* remote calls answered with an error so far
    toast              \* the notification the last step of the component
                       \* showed, if it showed one

ui == <<isOpen, isMaximized, isHistoryOpen, messages, chatSessions, input,
        isLoading, currentSessionId>>
store == <<dbSessions, dbMessages>>
vars == <<isOpen, isMaximized, isHistoryOpen, messages, chatSessions, input,
          isLoading, currentSessionId, user, dbSessions, dbMessages, nextId,
          calls, ops, faults, toast>>

\* --------------------------------------------------------------- helpers
Max(S) == CHOOSE x \in S : \A y \in S : y <= x

\* .order(column, { ascending: true }) over a set of rows
RECURSIVE OrderAsc(_, _)
OrderAsc(column, rows) ==
    IF rows = {} THEN <<>>
    ELSE LET first == CHOOSE r \in rows : \A q \in rows : r[column] <= q[column]
         IN <<first>> \o OrderAsc(column, rows \ {first})

\* .order(column, { ascending: false })
RECURSIVE OrderDesc(_, _)
OrderDesc(column, rows) ==
    IF rows = {} THEN <<>>
    ELSE LET first == CHOOSE r \in rows : \A q \in rows : r[column] >= q[column]
         IN <<first>> \o OrderDesc(column, rows \ {first})

\* The Message shape; sid is the session the message belongs to (the data
\* model's "a Message always belongs to exactly one session"), which the
\* component does not store.  The display-only timestamp is left out.
Message(type, content, sid) == [type |-> type, content |-> content, sid |-> sid]

\* The ChatSession shape, without its display-only timestamp.
ChatSession(id, title, lastMessage, isActive) ==
    [id |-> id, title |-> title, lastMessage |-> lastMessage, isActive |-> isActive]

ListIds == { chatSessions[i].id : i \in 1..Len(chatSessions) }

\* A call in flight.  st is "sent" until the remote side has answered and
\* "done" from then until the handler resumes; capSid and capUser are the
\* currentSessionId and user of the render whose closure the handler runs in;
\* n tells the calls of different handler invocations apart.
Call(n, op, sid, capSid, capUser, awaited, req) ==
    [n |-> n, op |-> op, st |-> "sent", stage |-> "main", sid |-> sid,
     capSid |-> capSid,
     capUser |-> capUser, awaited |-> awaited, req |-> req,
     error |-> FALSE, data |-> <<>>, previews |-> <<>>, todo |-> {}, failed |-> {}]

\* Room, within the model's bounds, for one more handler that issues a call.
CanIssue == Cardinality(calls) < MaxInFlight /\ ops < MaxOps

\* Room, within the model's bounds, for one more error answer.
CanFail == faults < MaxFaults

\* The store as an earlier visit of the user can have left it: one session
\* with an exchange whose answer is exactly as long as a preview, and one
\* untitled session with a short message that was never answered.
SeededSessions ==
    { [id |-> 1, title |-> NewChatTitle, user_id |-> UserId, created_at |-> 1],
      [id |-> 2, title |-> NoTitle, user_id |-> UserId, created_at |-> 2] }

SeededMessages ==
    { [session_id |-> 1, sender |-> "user", content |-> <<"h", "i">>, timestamp |-> 1],
      [session_id |-> 1, sender |-> "bot", content |-> Text(PreviewLen),
       timestamp |-> 2],
      [session_id |-> 2, sender |-> "user", content |-> <<"h", "i">>, timestamp |-> 1] }

Init ==
    /\ isOpen = FALSE
    /\ isMaximized = FALSE
    /\ isHistoryOpen = FALSE
    /\ messages = <<>>
    /\ chatSessions = <<>>
    /\ input = <<>>
    /\ isLoading = FALSE
    /\ currentSessionId = NoSession
    /\ user \in {NoUser, UserId}
    /\ \/ dbSessions = {} /\ dbMessages = {}
       \/ dbSessions = SeededSessions /\ dbMessages = SeededMessages
    /\ nextId = 1 + Max({0} \cup { r.id : r \in dbSessions })
    /\ calls = {}
    /\ ops = 0
    /\ faults = 0
    /\ toast = NoToast

\* ------------------------------------------------------ fetchChatSessions
\* The synchronous start of fetchChatSessions in a closure that captured
\* capUser and capSid: nothing without a user, else the chat_sessions query.
\* deleted is the session whose deleteChatSession calls it (NoSession when
\* the effect or handleSend does), awaited whether that handler awaits it.
FetchChatSessions(n, capUser, capSid, deleted, awaited) ==
    IF capUser = NoUser THEN {}
    ELSE { Call(n, "fetch", deleted, capSid, capUser, awaited, <<>>) }

\* Mutant of LoadingAfterFetch: deleteChatSession has no finally after the
\* re-fetch it awaits.
LoadingAfterFetchKept(c) == isLoading

\* What the end of a fetchChatSessions does to isLoading: deleteChatSession
\* awaits it on its success path and then runs its finally.
LoadingAfterFetch(c) == IF c.awaited THEN FALSE ELSE isLoading

\* from('chat_sessions').select('*').eq('user_id', id).order('created_at', desc)
SessionsQuery(uid) ==
    OrderDesc("created_at", { r \in dbSessions : r.user_id = uid })

Limit(rows, n) == SubSeq(rows, 1, Min(n, Len(rows)))

\* from('chat_messages').select('*').eq('session_id', id)
\*     .order('timestamp', desc).limit(1)
LastMessageQuery(sid) ==
    Limit(OrderDesc("timestamp", { m \in dbMessages : m.session_id = sid }), 1)

\* lastMessage of a session from the rows its preview query returned
LastMessageOf(messagesData) ==
    IF Len(messagesData) > 0 THEN PreviewOf(messagesData[1].content) ELSE <<>>

\* session.title || 'Untitled Chat'
TitleOf(row) == IF row.title = NoTitle THEN UntitledTitle ELSE row.title

\* isActive: session.id === currentSessionId, in the closure of the fetch
ActiveMark(id, capSid) == id = capSid

SessionsWithMessages(c) ==
    [i \in 1..Len(c.data) |->
        ChatSession(c.data[i].id, TitleOf(c.data[i]),
                    LastMessageOf(c.previews[i]), ActiveMark(c.data[i].id, c.capSid))]

\* The store answers the chat_sessions query: with an error or with the rows.
FetchServeSessions(c) ==
    /\ c.op = "fetch" /\ c.stage = "main" /\ c.st = "sent"
    /\ \E err \in BOOLEAN :
         /\ err => CanFail
         /\ faults' = IF err THEN faults + 1 ELSE faults
         /\ calls' = (calls \ {c}) \cup
              { [c EXCEPT !.st = "done", !.error = err,
                          !.data = IF err THEN <<>> ELSE SessionsQuery(c.capUser)] }
    /\ UNCHANGED <<ui, user, store, nextId, ops, toast>>

\* Mutant of SessionsQueryFailed: an empty answer is taken for a failure.
SessionsQueryFailedOrEmpty(c) == c.error \/ Len(c.data) = 0

\* if (sessionsError) throw sessionsError
SessionsQueryFailed(c) == c.error

\* fetchChatSessions resumes after the chat_sessions query.
FetchResumeSessions(c) ==
    /\ c.op = "fetch" /\ c.stage = "main" /\ c.st = "done"
    /\ IF SessionsQueryFailed(c)
       THEN /\ toast' = ToastHistoryFailed
            /\ calls' = calls \ {c}
            /\ isLoading' = LoadingAfterFetch(c)
            /\ UNCHANGED chatSessions
       ELSE IF Len(c.data) = 0
       THEN /\ chatSessions' = <<>>
            /\ toast' = NoToast
            /\ calls' = calls \ {c}
            /\ isLoading' = LoadingAfterFetch(c)
       ELSE /\ calls' = (calls \ {c}) \cup
                { [c EXCEPT !.stage = "previews", !.st = "sent",
                            !.todo = 1..Len(c.data),
                            !.previews = [i \in 1..Len(c.data) |-> <<>>]] }
            /\ toast' = NoToast
            /\ UNCHANGED <<chatSessions, isLoading>>
    /\ UNCHANGED <<isOpen, isMaximized, isHistoryOpen, messages, input,
                   currentSessionId, user, store, nextId, ops, faults>>

\* The store answers the preview query of the i-th session; the query's error
\* is not read (const { data: messagesData } = await ...), data is null then.
\* The queries of one Promise.all are answered in the order of the sessions.
PreviewServe(c, i) ==
    /\ c.op = "fetch" /\ c.stage = "previews" /\ i \in c.todo
    /\ \A j \in c.todo : i <= j
    /\ \E err \in BOOLEAN :
         /\ err => CanFail
         /\ faults' = IF err THEN faults + 1 ELSE faults
         /\ calls' = (calls \ {c}) \cup
              { [c EXCEPT !.todo = @ \ {i},
                          !.failed = IF err THEN @ \cup {i} ELSE @,
                          !.st = IF c.todo = {i} THEN "done" ELSE "sent",
                          !.previews[i] =
                              IF err THEN <<>> ELSE LastMessageQuery(c.data[i].id)] }
    /\ UNCHANGED <<ui, user, store, nextId, ops, toast>>

\* Promise.all has resolved: setChatSessions(sessionsWithMessages).
FetchInstall(c) ==
    /\ c.op = "fetch" /\ c.stage = "previews" /\ c.st = "done"
    /\ chatSessions' = SessionsWithMessages(c)
    /\ calls' = calls \ {c}
    /\ isLoading' = LoadingAfterFetch(c)
    /\ toast' = NoToast
    /\ UNCHANGED <<isOpen, isMaximized, isHistoryOpen, messages, input,
                   currentSessionId, user, store, nextId, ops, faults>>

\* ------------------------------------------------------------- view state
\* Mutant of ToggleOpen: the effect does not run when isOpen changes (its
\* dependency list is empty), so that opening fetches nothing.
ToggleOpenWithoutEffect ==
    /\ IF isOpen
       THEN /\ isOpen' = FALSE
            /\ UNCHANGED <<isMaximized, isHistoryOpen>>
       ELSE /\ isOpen' = TRUE
            /\ isMaximized' = FALSE
            /\ isHistoryOpen' = FALSE
    /\ toast' = NoToast
    /\ UNCHANGED <<messages, chatSessions, input, isLoading, currentSessionId,
                   user, store, nextId, calls, ops, faults>>

\* Mutant of ToggleOpen: opening leaves the maximize and history flags as
\* they were when the widget was closed.
ToggleOpenKeepsView ==
    /\ IF isOpen
       THEN /\ isOpen' = FALSE
            /\ UNCHANGED <<calls, ops, faults>>
       ELSE /\ user # NoUser => CanIssue
            /\ isOpen' = TRUE
            /\ calls' = calls \cup
                 FetchChatSessions(ops + 1, user, currentSessionId, NoSession, FALSE)
            /\ ops' = IF user # NoUser THEN ops + 1 ELSE ops
            /\ UNCHANGED faults
    /\ toast' = NoToast
    /\ UNCHANGED <<isMaximized, isHistoryOpen, messages, chatSessions, input,
                   isLoading, currentSessionId, user, store, nextId>>

\* The chat button: close, or open in normal mode with the history collapsed;
\* the effect on [isOpen, user] fetches the sessions when open with a user.
ToggleOpen ==
    /\ IF isOpen
       THEN /\ isOpen' = FALSE
            /\ UNCHANGED <<isMaximized, isHistoryOpen, calls, ops, faults>>
       ELSE /\ user # NoUser => CanIssue
            /\ isOpen' = TRUE
            /\ isMaximized' = FALSE
            /\ isHistoryOpen' = FALSE
            /\ calls' = calls \cup
                 FetchChatSessions(ops + 1, user, currentSessionId, NoSession, FALSE)
            /\ ops' = IF user # NoUser THEN ops + 1 ELSE ops
            /\ UNCHANGED faults
    /\ toast' = NoToast
    /\ UNCHANGED <<messages, chatSessions, input, isLoading, currentSessionId,
                   user, store, nextId>>

ToggleMaximize ==
    /\ isOpen
    /\ isMaximized' = ~isMaximized
    /\ UNCHANGED <<isOpen, isHistoryOpen, messages, chatSessions, input, isLoading,
                   currentSessionId, user, store, nextId, calls, ops, faults>>
    /\ toast' = NoToast

ToggleHistory ==
    /\ isOpen
    /\ isHistoryOpen' = ~isHistoryOpen
    /\ UNCHANGED <<isOpen, isMaximized, messages, chatSessions, input, isLoading,
                   currentSessionId, user, store, nextId, calls, ops, faults>>
    /\ toast' = NoToast

\* The backdrop of the maximized window: setIsMaximized(false).
BackdropClick ==
    /\ isOpen /\ isMaximized
    /\ isMaximized' = FALSE
    /\ UNCHANGED <<isOpen, isHistoryOpen, messages, chatSessions, input, isLoading,
                   currentSessionId, user, store, nextId, calls, ops, faults>>
    /\ toast' = NoToast

\* The input field (disabled while loading): setInput(e.target.value).
SetInput(v) ==
    /\ isOpen /\ ~isLoading
    /\ v # input
    /\ input' = v
    /\ toast' = NoToast
    /\ UNCHANGED <<isOpen, isMaximized, isHistoryOpen, messages, chatSessions,
                   isLoading, currentSessionId, user, store, nextId, calls, ops, faults>>

\* -------------------------------------------------------------- handleSend
\* Mutant of FormattedMessages: only the new message is submitted.
FormattedMessagesNewOnly(msgs, userMessage) ==
    <<[text |-> userMessage, sender |-> "user"]>>

\* formattedMessages: the closure's messages mapped to the service's shape,
\* then the new user message pushed at the end.
FormattedMessages(msgs, userMessage) ==
    Append([i \in 1..Len(msgs) |->
               [text |-> msgs[i].content,
                sender |-> IF msgs[i].type = "user" THEN "user" ELSE "bot"]],
           [text |-> userMessage, sender |-> "user"])

\* let sessionId = currentSessionId; if (!sessionId) sessionId = uuidv4()
SendSessionId == IF currentSessionId = NoSession THEN nextId ELSE currentSessionId

\* Mutant of NotLoggedIn: the check for a user is missing.
NotLoggedInNever(u) == FALSE

\* if (!user)
NotLoggedIn(u) == u = NoUser

\* Mutant of AppendMessage: the message is put in front of the list.
AppendMessageInFront(prev, message) == <<message>> \o prev

\* setMessages((prev) => [...prev, message])
AppendMessage(prev, message) == Append(prev, message)

\* Mutant of IsBlank: the input is not trimmed before the test.
IsBlankUntrimmed(text) == text = <<>>

\* Is the input blank: !input.trim()
IsBlank(text) == Trim(text) = <<>>

\* The form's submit (the input and the button are disabled while loading),
\* up to the await of the answering service.
HandleSend ==
    /\ isOpen /\ ~isLoading
    /\ IF IsBlank(input)
       THEN /\ toast' = NoToast
            /\ UNCHANGED <<ui, user, store, nextId, calls, ops, faults>>
       ELSE IF NotLoggedIn(user)
       THEN /\ input' = <<>>
            /\ toast' = ToastSendLogin
            /\ isLoading' = FALSE
            /\ UNCHANGED <<isOpen, isMaximized, isHistoryOpen, messages, chatSessions,
                           currentSessionId, user, store, nextId, calls, ops, faults>>
       ELSE /\ CanIssue
            /\ ops' = ops + 1 /\ UNCHANGED faults
            /\ input' = <<>>
            /\ currentSessionId' = SendSessionId
            /\ nextId' = IF currentSessionId = NoSession THEN nextId + 1 ELSE nextId
            /\ messages' = AppendMessage(messages,
                                Message("user", Trim(input), SendSessionId))
            /\ isLoading' = TRUE
            /\ calls' = calls \cup
                 { Call(ops + 1, "send", SendSessionId, currentSessionId, user, FALSE,
                        [messages |-> FormattedMessages(messages, Trim(input)),
                         sessionId |-> SendSessionId, userId |-> user]) }
            /\ toast' = NoToast
            /\ UNCHANGED <<isOpen, isMaximized, isHistoryOpen, chatSessions, user, store>>

NextCreatedAt == 1 + Max({0} \cup { r.created_at : r \in dbSessions })

NextTimestamp(sid) ==
    1 + Max({0} \cup { m.timestamp : m \in { q \in dbMessages : q.session_id = sid } })

\* The answering service keeps the exchange: the session row when the store
\* has none for the id, the user's message and its answer.
ServicePersist(req, answer) ==
    /\ dbSessions' =
         IF \E r \in dbSessions : r.id = req.sessionId THEN dbSessions
         ELSE dbSessions \cup
                { [id |-> req.sessionId, title |-> NoTitle, user_id |-> req.userId,
                   created_at |-> NextCreatedAt] }
    /\ dbMessages' = dbMessages \cup
         { [session_id |-> req.sessionId, sender |-> "user",
            content |-> req.messages[Len(req.messages)].text,
            timestamp |-> NextTimestamp(req.sessionId)],
           [session_id |-> req.sessionId, sender |-> "bot", content |-> answer,
            timestamp |-> NextTimestamp(req.sessionId) + 1] }

\* The answering service answers a send: with an error, or with an answer.
SendServe(c) ==
    /\ c.op = "send" /\ c.st = "sent"
    /\ \/ /\ CanFail
          /\ faults' = faults + 1
          /\ calls' = (calls \ {c}) \cup { [c EXCEPT !.st = "done", !.error = TRUE] }
          /\ UNCHANGED store
       \/ \E answer \in Answers :
            /\ ServicePersist(c.req, answer)
            /\ UNCHANGED faults
            /\ calls' = (calls \ {c}) \cup
                 { [c EXCEPT !.st = "done", !.data = <<answer>>] }
    /\ UNCHANGED <<ui, user, nextId, ops, toast>>

\* Mutant of RefreshAfterSend: the refresh also follows a failed call.
RefreshAfterSendAlways(c) ==
    FetchChatSessions(c.n, c.capUser, c.capSid, NoSession, FALSE)

\* fetchChatSessions() at the end of the try block: only after an answer.
RefreshAfterSend(c) ==
    IF c.error THEN {}
    ELSE FetchChatSessions(c.n, c.capUser, c.capSid, NoSession, FALSE)

\* Mutant of BotMessage: the answer is shown as a message of the user.
BotMessageAsUser(answer, sid) == Message("user", answer, sid)

\* botMessage: { type: "bot", content: response.data.answer }
BotMessage(answer, sid) == Message("bot", answer, sid)

\* handleSend resumes after the answering service's response.
SendResume(c) ==
    /\ c.op = "send" /\ c.st = "done"
    /\ IF c.error
       THEN /\ toast' = ToastSendFailed
            /\ UNCHANGED messages
       ELSE /\ messages' = AppendMessage(messages, BotMessage(c.data[1], c.sid))
            /\ toast' = NoToast
    /\ calls' = (calls \ {c}) \cup RefreshAfterSend(c)
    /\ isLoading' = FALSE
    /\ UNCHANGED <<isOpen, isMaximized, isHistoryOpen, chatSessions, input,
                   currentSessionId, user, store, nextId, ops, faults>>

\* ---------------------------------------------------- createNewChatSession
\* Mutant of CreateNewChatSession: the generated id is adopted, and the
\* messages cleared, before the insert is answered.
CreateNewChatSessionOptimistic ==
    /\ isOpen /\ isHistoryOpen
    /\ isMaximized \/ ~isLoading
    /\ IF NotLoggedIn(user)
       THEN /\ toast' = ToastCreateLogin
            /\ UNCHANGED <<ui, user, store, nextId, calls, ops, faults>>
       ELSE /\ CanIssue
            /\ ops' = ops + 1 /\ UNCHANGED faults
            /\ nextId' = nextId + 1
            /\ currentSessionId' = nextId
            /\ messages' = <<>>
            /\ calls' = calls \cup
                 { Call(ops + 1, "create", nextId, currentSessionId, user, FALSE,
                        [id |-> nextId, title |-> NewChatTitle, user_id |-> user]) }
            /\ toast' = NoToast
            /\ UNCHANGED <<isOpen, isMaximized, isHistoryOpen, chatSessions, input,
                           isLoading, user, store>>

\* The New Chat button of the history panel (disabled while loading in the
\* dropdown, never in the maximized sidebar), up to the await of the insert.
CreateNewChatSession ==
    /\ isOpen /\ isHistoryOpen
    /\ isMaximized \/ ~isLoading
    /\ IF NotLoggedIn(user)
       THEN /\ toast' = ToastCreateLogin
            /\ UNCHANGED <<ui, user, store, nextId, calls, ops, faults>>
       ELSE /\ CanIssue
            /\ ops' = ops + 1 /\ UNCHANGED faults
            /\ nextId' = nextId + 1
            /\ calls' = calls \cup
                 { Call(ops + 1, "create", nextId, currentSessionId, user, FALSE,
                        [id |-> nextId, title |-> NewChatTitle, user_id |-> user]) }
            /\ toast' = NoToast
            /\ UNCHANGED <<ui, user, store>>

\* The store answers the insert: with an error, or with the inserted row.
CreateServe(c) ==
    /\ c.op = "create" /\ c.st = "sent"
    /\ \/ /\ CanFail
          /\ faults' = faults + 1
          /\ calls' = (calls \ {c}) \cup { [c EXCEPT !.st = "done", !.error = TRUE] }
          /\ UNCHANGED store
       \/ LET row == [id |-> c.req.id, title |-> c.req.title,
                      user_id |-> c.req.user_id, created_at |-> NextCreatedAt]
          IN /\ dbSessions' = dbSessions \cup {row}
             /\ calls' = (calls \ {c}) \cup { [c EXCEPT !.st = "done", !.data = <<row>>] }
             /\ UNCHANGED <<dbMessages, faults>>
    /\ UNCHANGED <<ui, user, nextId, ops, toast>>

\* Mutant of PrependNewSession: the other sessions keep their isActive.
PrependNewSessionKeepActive(prev, id) ==
    <<ChatSession(id, NewChatTitle, <<>>, TRUE)>> \o prev

\* setChatSessions(prev => [newSession, ...prev.map(s => ({...s, isActive: false}))])
PrependNewSession(prev, id) ==
    <<ChatSession(id, NewChatTitle, <<>>, TRUE)>>
        \o [i \in 1..Len(prev) |-> [prev[i] EXCEPT !.isActive = FALSE]]

\* createNewChatSession resumes after the insert.
CreateResume(c) ==
    /\ c.op = "create" /\ c.st = "done"
    /\ IF c.error
       THEN /\ toast' = ToastCreateFailed
            /\ UNCHANGED <<currentSessionId, messages, chatSessions>>
       ELSE /\ currentSessionId' = c.data[1].id
            /\ messages' = <<>>
            /\ chatSessions' = PrependNewSession(chatSessions, c.data[1].id)
            /\ toast' = NoToast
    /\ calls' = calls \ {c}
    /\ UNCHANGED <<isOpen, isMaximized, isHistoryOpen, input, isLoading, user,
                   store, nextId, ops, faults>>

\* ---------------------------------------------------------- loadChatSession
\* prev.map(session => ({...session, isActive: session.id === sessionId}))
MarkActive(prev, sessionId) ==
    [i \in 1..Len(prev) |-> [prev[i] EXCEPT !.isActive = (prev[i].id = sessionId)]]

\* A session button of the history panel (never disabled), up to the await
\* of the messages query.
LoadChatSession(sessionId) ==
    /\ isOpen /\ isHistoryOpen
    /\ sessionId \in ListIds
    /\ CanIssue
    /\ isLoading' = TRUE
    /\ chatSessions' = MarkActive(chatSessions, sessionId)
    /\ calls' = calls \cup
         { Call(ops + 1, "load", sessionId, currentSessionId, user, FALSE, <<>>) }
    /\ toast' = NoToast
    /\ ops' = ops + 1 /\ UNCHANGED faults
    /\ UNCHANGED <<isOpen, isMaximized, isHistoryOpen, messages, input,
                   currentSessionId, user, store, nextId>>

\* from('chat_messages').select('*').eq('session_id', id).order('timestamp', asc)
MessagesQuery(sid) == OrderAsc("timestamp", { m \in dbMessages : m.session_id = sid })

\* The store answers the messages query: with an error, or with the rows.
LoadServe(c) ==
    /\ c.op = "load" /\ c.st = "sent"
    /\ \E err \in BOOLEAN :
         /\ err => CanFail
         /\ faults' = IF err THEN faults + 1 ELSE faults
         /\ calls' = (calls \ {c}) \cup
              { [c EXCEPT !.st = "done", !.error = err,
                          !.data = IF err THEN <<>> ELSE MessagesQuery(c.sid)] }
    /\ UNCHANGED <<ui, user, store, nextId, ops, toast>>

\* A store row in the Message shape.
FormatMessage(msg) ==
    Message(IF msg.sender = "user" THEN "user" ELSE "bot", msg.content, msg.session_id)

\* Mutant of LoadResume: the messages of a session the list no longer marks
\* active are discarded.
LoadResumeDiscardStale(c) ==
    /\ c.op = "load" /\ c.st = "done"
    /\ IF c.error
       THEN /\ toast' = ToastLoadFailed
            /\ UNCHANGED <<messages, currentSessionId>>
       ELSE IF \E i \in 1..Len(chatSessions) :
                  chatSessions[i].id = c.sid /\ ~chatSessions[i].isActive
       THEN /\ toast' = NoToast
            /\ UNCHANGED <<messages, currentSessionId>>
       ELSE /\ messages' = [i \in 1..Len(c.data) |-> FormatMessage(c.data[i])]
            /\ currentSessionId' = c.sid
            /\ toast' = NoToast
    /\ isLoading' = FALSE
    /\ calls' = calls \ {c}
    /\ UNCHANGED <<isOpen, isMaximized, isHistoryOpen, chatSessions, input, user,
                   store, nextId, ops, faults>>

\* loadChatSession resumes after the messages query.
LoadResume(c) ==
    /\ c.op = "load" /\ c.st = "done"
    /\ IF c.error
       THEN /\ toast' = ToastLoadFailed
            /\ UNCHANGED <<messages, currentSessionId>>
       ELSE /\ messages' = [i \in 1..Len(c.data) |-> FormatMessage(c.data[i])]
            /\ currentSessionId' = c.sid
            /\ toast' = NoToast
    /\ isLoading' = FALSE
    /\ calls' = calls \ {c}
    /\ UNCHANGED <<isOpen, isMaximized, isHistoryOpen, chatSessions, input, user,
                   store, nextId, ops, faults>>

\* -------------------------------------------------------- deleteChatSession
\* Mutant of RemoveSession: the filter keeps the session and drops the others.
RemoveSessionInverted(prev, sessionId) ==
    LET Keep(s) == s.id = sessionId IN SelectSeq(prev, Keep)

\* prev.filter(session => session.id !== sessionId)
RemoveSession(prev, sessionId) ==
    LET Keep(s) == s.id # sessionId IN SelectSeq(prev, Keep)

\* Mutant of DeleteChatSession: the conversation is cleared whichever
\* session is deleted.
DeleteChatSessionAlwaysClears(sessionId) ==
    /\ isOpen /\ isHistoryOpen /\ ~isLoading
    /\ sessionId \in ListIds
    /\ CanIssue
    /\ isLoading' = TRUE
    /\ chatSessions' = RemoveSession(chatSessions, sessionId)
    /\ messages' = <<>> /\ currentSessionId' = NoSession
    /\ calls' = calls \cup
         { Call(ops + 1, "delete", sessionId, currentSessionId, user, FALSE,
                [action |-> "delete_session", sessionId |-> sessionId]) }
    /\ toast' = NoToast
    /\ ops' = ops + 1 /\ UNCHANGED faults
    /\ UNCHANGED <<isOpen, isMaximized, isHistoryOpen, input, user, store, nextId>>

\* The delete button of a session (disabled while loading), up to the await
\* of the answering service's deletion command.
DeleteChatSession(sessionId) ==
    /\ isOpen /\ isHistoryOpen /\ ~isLoading
    /\ sessionId \in ListIds
    /\ CanIssue
    /\ isLoading' = TRUE
    /\ chatSessions' = RemoveSession(chatSessions, sessionId)
    /\ IF currentSessionId = sessionId
       THEN messages' = <<>> /\ currentSessionId' = NoSession
       ELSE UNCHANGED <<messages, currentSessionId>>
    /\ calls' = calls \cup
         { Call(ops + 1, "delete", sessionId, currentSessionId, user, FALSE,
                [action |-> "delete_session", sessionId |-> sessionId]) }
    /\ toast' = NoToast
    /\ ops' = ops + 1 /\ UNCHANGED faults
    /\ UNCHANGED <<isOpen, isMaximized, isHistoryOpen, input, user, store, nextId>>

\* The answering service answers the deletion command: with an error, or
\* after destroying the session and all its messages together.
DeleteServe(c) ==
    /\ c.op = "delete" /\ c.st = "sent"
    /\ \/ /\ CanFail
          /\ faults' = faults + 1
          /\ calls' = (calls \ {c}) \cup { [c EXCEPT !.st = "done", !.error = TRUE] }
          /\ UNCHANGED store
       \/ /\ dbSessions' = { r \in dbSessions : r.id # c.req.sessionId }
          /\ dbMessages' = { m \in dbMessages : m.session_id # c.req.sessionId }
          /\ calls' = (calls \ {c}) \cup { [c EXCEPT !.st = "done"] }
          /\ UNCHANGED faults
    /\ UNCHANGED <<ui, user, nextId, ops, toast>>

\* Mutant of RefreshAfterDelete: no re-fetch after a failed command.
RefreshAfterDeleteOnSuccessOnly(c) ==
    IF c.error THEN {}
    ELSE FetchChatSessions(c.n, c.capUser, c.capSid, c.sid, TRUE)

\* await fetchChatSessions() after the success toast, fetchChatSessions() in
\* the catch.
RefreshAfterDelete(c) ==
    FetchChatSessions(c.n, c.capUser, c.capSid, c.sid, ~c.error)

\* deleteChatSession resumes after the deletion command: on success it awaits
\* a re-fetch before its finally, on failure it starts one and runs its finally.
DeleteResume(c) ==
    /\ c.op = "delete" /\ c.st = "done"
    /\ calls' = (calls \ {c}) \cup RefreshAfterDelete(c)
    /\ IF c.error
       THEN /\ toast' = ToastDeleteFailed
            /\ isLoading' = FALSE
       ELSE /\ toast' = ToastDeleteOk
            /\ isLoading' = IF RefreshAfterDelete(c) = {} THEN FALSE ELSE isLoading
    /\ UNCHANGED <<isOpen, isMaximized, isHistoryOpen, messages, chatSessions, input,
                   currentSessionId, user, store, nextId, ops, faults>>

\* ------------------------------------------------------------ specification
\* A call in flight is answered by the remote side, or the handler awaiting
\* its answer resumes.
Respond ==
    \E c \in calls :
       \/ FetchServeSessions(c)
       \/ FetchResumeSessions(c)
       \/ \E i \in c.todo : PreviewServe(c, i)
       \/ FetchInstall(c)
       \/ SendServe(c)
       \/ SendResume(c)
       \/ CreateServe(c)
       \/ CreateResume(c)
       \/ LoadServe(c)
       \/ LoadResume(c)
       \/ DeleteServe(c)
       \/ DeleteResume(c)

Next ==
    \/ ToggleOpen
    \/ ToggleMaximize
    \/ ToggleHistory
    \/ BackdropClick
    \/ \E v \in Inputs : SetInput(v)
    \/ HandleSend
    \/ CreateNewChatSession
    \/ \E id \in ListIds : LoadChatSession(id)
    \/ \E id \in ListIds : DeleteChatSession(id)
    \/ Respond

Spec == Init /\ [][Next]_vars

\* The widget of a logged-in user whose store holds no session yet.
FairInit == Init /\ user = UserId /\ dbSessions = {}

\* Every network call that was issued returns, with success or with an
\* error, and the event loop then runs the handler that awaits it.
FairSpec == FairInit /\ [][Next]_vars /\ WF_vars(Respond)

\* ------------------------------------------------------------------ claims
ActiveIndexes(list) == { i \in 1..Len(list) : list[i].isActive }

\* C1: in every reachable state the visible messages are all messages of the
\* session currentSessionId points to (none when it points to no session);
\* no bot reply of a send in one session lands in the list of another.
C1_VisibleMessagesOfActiveSession ==
    \A i \in 1..Len(messages) : messages[i].sid = currentSessionId

\* C2: a send of non-blank input by an authenticated user appends exactly one
\* user message, holding the trimmed text, at the end of the visible list in
\* the step that issues the answering-service call, which is then unanswered.
C2_SendAppendsUserMessage ==
    [][ (HandleSend /\ Trim(input) # <<>> /\ user # NoUser) =>
          /\ messages' = messages \o
                <<[type |-> "user", content |-> Trim(input), sid |-> currentSessionId']>>
          /\ \E c \in calls' \ calls : c.op = "send" /\ c.st = "sent"
          /\ \A c \in calls' \ calls : c.op = "send" /\ c.st = "sent"
       ]_vars

C2_Witness ==
    /\ \E c \in calls : c.op = "send" /\ c.st = "sent"
    /\ messages # <<>>
    /\ messages[Len(messages)].type = "user"
    /\ messages[Len(messages)].content = <<"h", "i">>

\* C3: a send with empty or whitespace-only input changes no state variable
\* (messages, input, loading flag, active-session pointer, session list) and
\* issues no network call.
C3_BlankSendChangesNothing ==
    [][ (HandleSend /\ Trim(input) = <<>>) =>
          /\ UNCHANGED <<messages, input, isLoading, currentSessionId, chatSessions,
                         isOpen, isMaximized, isHistoryOpen>>
          /\ UNCHANGED <<calls, store, nextId>>
          /\ toast' = NoToast
       ]_vars

C3_Witness ==
    /\ isOpen /\ ~isLoading
    /\ input = <<" ", " ">>
    /\ ENABLED HandleSend
    /\ messages # <<>>

\* C4: without an authenticated user a send of non-blank input appends no
\* message, shows the login error, issues no network call and leaves the
\* active-session pointer and the loading flag as they were (no fresh session
\* id is adopted).
C4_UnauthenticatedSend ==
    [][ (HandleSend /\ Trim(input) # <<>> /\ user = NoUser) =>
          /\ toast' = ToastSendLogin
          /\ UNCHANGED <<messages, currentSessionId, isLoading, calls, nextId, store>>
       ]_vars

C4_Witness ==
    /\ user = NoUser
    /\ toast = ToastSendLogin
    /\ input = <<>>
    /\ messages = <<>> /\ calls = {} /\ currentSessionId = NoSession

\* C5: when create session succeeds, the created session is first in the list
\* and the only one marked active, currentSessionId is its id and the visible
\* message list is empty.
C5_CreateActivatesNewSession ==
    [][ \A c \in calls : (CreateResume(c) /\ ~c.error) =>
          /\ chatSessions'[1].id = c.sid
          /\ ActiveIndexes(chatSessions') = {1}
          /\ Len(chatSessions') = Len(chatSessions) + 1
          /\ currentSessionId' = c.sid
          /\ messages' = <<>>
       ]_vars

C5_Witness ==
    /\ \A c \in calls : c.op # "create"
    /\ Len(chatSessions) >= 2
    /\ chatSessions[1].id = nextId - 1
    /\ chatSessions[1].title = NewChatTitle
    /\ ActiveIndexes(chatSessions) = {1}
    /\ currentSessionId = chatSessions[1].id
    /\ messages = <<>>

\* A fetchChatSessions ends in this step: on the sessions query's error or
\* empty answer, or by installing the list.
FetchEnds(c) ==
    \/ FetchResumeSessions(c) /\ (c.error \/ Len(c.data) = 0)
    \/ FetchInstall(c)

C7_LoadCompletes ==
    [][ \A c \in calls : (LoadResume(c) /\ c.sid \in ListIds) =>
          /\ ~c.error =>
               /\ { chatSessions'[i].id : i \in ActiveIndexes(chatSessions') } = {c.sid}
               /\ Cardinality(ActiveIndexes(chatSessions')) = 1
               /\ currentSessionId' = c.sid
               /\ messages' =
                    [i \in 1..Len(MessagesQuery(c.sid)) |->
                        [type |-> IF MessagesQuery(c.sid)[i].sender = "user"
                                  THEN "user" ELSE "bot",
                         content |-> MessagesQuery(c.sid)[i].content,
                         sid |-> c.sid]]
          /\ c.error =>
               /\ \A i \in 1..Len(chatSessions') :
                    chatSessions'[i].isActive <=> chatSessions'[i].id = currentSessionId'
               /\ \A i \in 1..Len(messages') : messages'[i].sid = currentSessionId'
       ]_vars

\* C8: whenever the fetched session list is installed, each session of it is
\* marked isActive exactly when its id is the active-session pointer of that
\* moment.
C8_FetchMarksCurrentSession ==
    [][ \A c \in calls : FetchInstall(c) =>
          \A i \in 1..Len(chatSessions') :
             chatSessions'[i].isActive <=> chatSessions'[i].id = currentSessionId'
       ]_vars

\* C9: the preview of a listed session is the content of the most recent
\* message its preview query returned, cut to the first 30 characters with
\* "..." appended when the content is longer than 30 characters, the whole
\* content without ellipsis when it has 30 characters or fewer, and empty
\* when the query returned no message.
C9_PreviewText ==
    [][ \A c \in calls :
          /\ FetchInstall(c) =>
               \A i \in 1..Len(c.data) :
                  LET rows == c.previews[i]
                      shown == chatSessions'[i].lastMessage
                  IN  IF rows = <<>> THEN shown = <<>>
                      ELSE IF Len(rows[1].content) > 30
                      THEN shown = SubSeq(rows[1].content, 1, 30) \o <<".", ".", ".">>
                      ELSE shown = rows[1].content
          /\ \A i \in c.todo : PreviewServe(c, i) =>
               \E d \in calls' \ calls :
                  \/ d.previews[i] = <<>>
                  \/ /\ Len(d.previews[i]) = 1
                     /\ d.previews[i][1] \in dbMessages
                     /\ d.previews[i][1].session_id = c.data[i].id
                     /\ \A m \in dbMessages :
                          m.session_id = c.data[i].id =>
                             m.timestamp <= d.previews[i][1].timestamp
       ]_vars

C9_Witness ==
    /\ \E i \in 1..Len(chatSessions) :
         /\ Len(chatSessions[i].lastMessage) = 33
         /\ SubSeq(chatSessions[i].lastMessage, 31, 33) = <<".", ".", ".">>
    /\ \E i \in 1..Len(chatSessions) :
         /\ Len(chatSessions[i].lastMessage) = 30
         /\ chatSessions[i].lastMessage[30] # "."
    /\ \E i \in 1..Len(chatSessions) : chatSessions[i].lastMessage = <<"h", "i">>

\* C10: any error of a fetch during list sessions, of the sessions query or
\* of a session's preview query, shows the error notification and leaves the
\* list displayed before unchanged.
C10_FetchErrorKeepsList ==
    [][ \A c \in calls :
          (\/ FetchResumeSessions(c) /\ c.error
           \/ FetchInstall(c) /\ c.failed # {}) =>
             /\ toast' = ToastHistoryFailed
             /\ UNCHANGED chatSessions
       ]_vars

\* C11: when the store answers the sessions query with zero sessions of the
\* user, list sessions empties the visible session list and shows no error
\* notification.
C11_NoSessionsEmptyList ==
    [][ \A c \in calls :
          (FetchResumeSessions(c) /\ ~c.error /\ Len(c.data) = 0) =>
             /\ chatSessions' = <<>>
             /\ toast' = NoToast
             /\ calls' = calls \ {c}
       ]_vars

C11_Witness ==
    /\ isOpen /\ user = UserId
    /\ dbSessions = {} /\ faults = 0
    /\ ops = 1 /\ calls = {}
    /\ chatSessions = <<>> /\ toast = NoToast

\* C12: create session without an authenticated user, or whose insert
\* fails, shows an error notification and leaves the active-session pointer,
\* the visible messages and the session list unchanged, in the step that
\* issues the insert as well as in the one that learns of its failure;
\* without a user it issues no network call.
C12_CreateFailsWithoutMutation ==
    [][ /\ (CreateNewChatSession /\ user = NoUser) =>
             /\ toast' = ToastCreateLogin
             /\ UNCHANGED <<currentSessionId, messages, chatSessions, isLoading,
                            input, calls, store>>
        /\ (CreateNewChatSession /\ user # NoUser) =>
             UNCHANGED <<currentSessionId, messages, chatSessions, isLoading,
                         input, store>>
        /\ \A c \in calls : (CreateResume(c) /\ c.error) =>
             /\ toast' = ToastCreateFailed
             /\ UNCHANGED <<currentSessionId, messages, chatSessions, isLoading,
                            input, store>>
       ]_vars

C12_Witness ==
    /\ toast = ToastCreateFailed
    /\ chatSessions # <<>>
    /\ \A c \in calls : c.op # "create"
    /\ \A r \in dbSessions : r.id < nextId - 1

\* C13: when the answering-service call of a send fails, the error
\* notification is shown, the visible messages are left as they are (the
\* user message is not taken back, no bot message is appended), no refresh
\* of the session list is issued and the loading flag is cleared.
C13_SendFailureKeepsUserMessage ==
    [][ \A c \in calls : (SendResume(c) /\ c.error) =>
          /\ toast' = ToastSendFailed
          /\ UNCHANGED messages
          /\ calls' = calls \ {c}
          /\ isLoading' = FALSE
       ]_vars

C13_Witness ==
    /\ toast = ToastSendFailed
    /\ ~isLoading
    /\ messages # <<>>
    /\ messages[Len(messages)] = [type |-> "user", content |-> <<"h", "i">>,
                                  sid |-> currentSessionId]
    /\ \A c \in calls : c.op # "fetch"

\* C14: a session id that send generated because no session was active does
\* not stay the active-session pointer when the answering-service call
\* fails.
C14_ProvisionalIdDropped ==
    [][ \A c \in calls :
          (SendResume(c) /\ c.error /\ c.capSid = NoSession) =>
             currentSessionId' # c.sid
       ]_vars

\* C15: while a call of send, load session or delete session is in flight
\* the loading flag is true; no completion clears it while another
\* operation's call is outstanding.
C15_LoadingWhileInFlight ==
    (\E c \in calls : c.op \in {"send", "load", "delete"}) => isLoading

\* C16: delete session has removed the session from the visible list in the
\* step that issues the deletion command, and the step that learns of the
\* command's answer always starts a re-fetch of the session list: with the
\* success notification after a success, with the error notification after
\* a failure.
C16_DeleteAlwaysRefetches ==
    [][ /\ \A id \in ListIds : DeleteChatSession(id) =>
             /\ id \notin { chatSessions'[i].id : i \in 1..Len(chatSessions') }
             /\ \E c \in calls' \ calls : c.op = "delete" /\ c.st = "sent" /\ c.sid = id
        /\ \A c \in calls : DeleteResume(c) =>
             /\ toast' = IF c.error THEN ToastDeleteFailed ELSE ToastDeleteOk
             /\ \E d \in calls' \ calls :
                  /\ d.op = "fetch" /\ d.stage = "main" /\ d.st = "sent"
                  /\ d.sid = c.sid
             /\ \A d \in calls' \ calls : d.op = "fetch"
       ]_vars

C16_Witness ==
    /\ toast = ToastDeleteFailed
    /\ \E c \in calls :
         /\ c.op = "fetch" /\ c.sid # NoSession /\ c.st = "sent" /\ c.stage = "main"
         /\ c.sid \notin ListIds

\* C17: every step from closed to open leaves the widget not maximized and
\* with the history panel collapsed, whatever the two flags were while it
\* was closed; closing changes only the open flag.
C17_OpenResetsView ==
    [][ ToggleOpen =>
          IF isOpen
          THEN /\ ~isOpen'
               /\ UNCHANGED <<isMaximized, isHistoryOpen, messages, chatSessions,
                              input, isLoading, currentSessionId, calls, store>>
          ELSE isOpen' /\ ~isMaximized' /\ ~isHistoryOpen'
       ]_vars

C17_Witness ==
    /\ ~isOpen
    /\ isMaximized /\ isHistoryOpen
    /\ ENABLED ToggleOpen

\* C18: the request of a send carries every message of the visible list as
\* it was before the send, in order, then the new user message as the last
\* element, with the session id that is the active-session pointer (the
\* generated id when none was active) and the user's id.
C18_SendRequest ==
    [][ (HandleSend /\ Trim(input) # <<>> /\ user # NoUser) =>
          \E c \in calls' \ calls :
             /\ c.op = "send"
             /\ Len(c.req.messages) = Len(messages) + 1
             /\ \A i \in 1..Len(messages) :
                  /\ c.req.messages[i].text = messages[i].content
                  /\ c.req.messages[i].sender = messages[i].type
             /\ c.req.messages[Len(messages) + 1] =
                  [text |-> Trim(input), sender |-> "user"]
             /\ c.req.sessionId = currentSessionId'
             /\ currentSessionId # NoSession => c.req.sessionId = currentSessionId
             /\ currentSessionId = NoSession =>
                  /\ c.req.sessionId # NoSession
                  /\ \A r \in dbSessions : r.id # c.req.sessionId
             /\ c.req.userId = user
       ]_vars

C18_Witness ==
    \E c \in calls :
       /\ c.op = "send" /\ c.st = "sent"
       /\ Len(c.req.messages) = 3
       /\ c.req.messages[1].sender = "user"
       /\ c.req.messages[2].sender = "bot"
       /\ c.req.messages[3] = [text |-> <<"h", "i">>, sender |-> "user"]
       /\ c.req.sessionId = currentSessionId

\* C19: the response of a superseded load session is not discarded: whenever
\* a load's messages arrive they replace the visible messages and the
\* pointer, also when the list meanwhile marks another session active, so
\* that the list marks B active while pointer and messages are A's.
C19_StaleLoadApplied ==
    [][ \A c \in calls : (LoadResume(c) /\ ~c.error) =>
          /\ currentSessionId' = c.sid
          /\ Len(messages') = Len(c.data)
          /\ \A i \in 1..Len(c.data) :
               /\ messages'[i].content = c.data[i].content
               /\ messages'[i].sid = c.sid
          /\ UNCHANGED chatSessions
       ]_vars

C19_Witness ==
    /\ calls = {} /\ faults = 0
    /\ currentSessionId = 1
    /\ Len(messages) = 2
    /\ \A i \in 1..Len(messages) : messages[i].sid = 1
    /\ \E i \in 1..Len(chatSessions) :
         chatSessions[i].id = 2 /\ chatSessions[i].isActive
    /\ \A i \in 1..Len(chatSessions) :
         chatSessions[i].id = 1 => ~chatSessions[i].isActive

\* C20: on a successful send exactly one bot message, carrying the returned
\* answer, is appended at the end of the visible list, in a later step than
\* the one that appended the user message, and the refresh of the session
\* list is issued in that step and not before.
C20_ReplyThenRefresh ==
    [][ /\ (HandleSend /\ Trim(input) # <<>> /\ user # NoUser) =>
             /\ messages'[Len(messages')].type = "user"
             /\ \A c \in calls' \ calls : c.op = "send" /\ c.data = <<>>
        /\ \A c \in calls : (SendResume(c) /\ ~c.error) =>
             /\ messages' = messages \o
                   <<[type |-> "bot", content |-> c.data[1], sid |-> c.sid]>>
             /\ c.req.messages[Len(c.req.messages)].sender = "user"
             /\ \A d \in calls : ~(d.op = "fetch" /\ d.n = c.n)
             /\ \E d \in calls' \ calls :
                  d.op = "fetch" /\ d.n = c.n /\ d.stage = "main" /\ d.st = "sent"
       ]_vars

C20_Witness ==
    /\ Len(messages) >= 2
    /\ messages[Len(messages) - 1].type = "user"
    /\ messages[Len(messages)].type = "bot"
    /\ messages[Len(messages)].content = Text(PreviewLen + 1)
    /\ \E c \in calls : c.op = "fetch" /\ c.n = ops /\ c.st = "sent" /\ c.stage = "main"
    /\ \A c \in calls : c.op # "send"

\* C21: in every reachable state at most one session of the visible list has
\* isActive = true.
C21_AtMostOneActive ==
    Cardinality(ActiveIndexes(chatSessions)) <= 1

\* C22: deleting a session that is not the active one leaves the visible
\* messages and the active-session pointer unchanged, and every other
\* session of the list is kept, in order, with its isActive marking.
C22_DeleteInactiveFrame ==
    [][ \A id \in ListIds : (DeleteChatSession(id) /\ currentSessionId # id) =>
          /\ UNCHANGED <<messages, currentSessionId>>
          /\ chatSessions' =
               SelectSeq(chatSessions, LAMBDA session : session.id # id)
          /\ \A j \in 1..Len(chatSessions') :
               \E i \in 1..Len(chatSessions) :
                  /\ chatSessions[i].id = chatSessions'[j].id
                  /\ chatSessions[i].isActive = chatSessions'[j].isActive
       ]_vars

C22_Witness ==
    /\ \E c \in calls : c.op = "delete" /\ c.st = "sent" /\ c.capSid # c.sid
                        /\ c.capSid # NoSession
    /\ currentSessionId # NoSession
    /\ messages # <<>>
    /\ \E i \in 1..Len(chatSessions) :
         chatSessions[i].isActive /\ chatSessions[i].id = currentSessionId

\* C23: in every reachable state the visible session list holds no two
\* entries with the same id.
C23_NoDuplicateIds ==
    \A i, j \in 1..Len(chatSessions) :
       i # j => chatSessions[i].id # chatSessions[j].id

\* C24: when every issued network call returns, with success or with an
\* error, a loading flag that is true eventually becomes false, after any
\* send, load session or delete session, answered or failed.
C24_LoadingEventuallyCleared ==
    isLoading ~> ~isLoading

C24_Witness ==
    /\ ~isLoading
    /\ calls = {}
    /\ faults = 1
    /\ toast = ToastLoadFailed

\* C25: whenever the widget becomes open with an authenticated user a fetch
\* of the session list is issued; without a user no fetch is issued, the
\* session list is left unchanged and no notification is shown.  Toggling
\* maximize or the history panel issues no network call and changes no
\* state but its own flag.
C25_FetchOnOpenAndPureToggles ==
    [][ /\ (ToggleOpen /\ ~isOpen) =>
             IF user # NoUser
             THEN /\ \E c \in calls' \ calls :
                       /\ c.op = "fetch" /\ c.stage = "main" /\ c.st = "sent"
                       /\ c.capUser = user
                  /\ \A c \in calls' \ calls : c.op = "fetch"
             ELSE /\ calls' = calls
                  /\ UNCHANGED chatSessions
                  /\ toast' = NoToast
        /\ ToggleMaximize =>
             /\ isMaximized' = ~isMaximized
             /\ UNCHANGED <<isOpen, isHistoryOpen, messages, chatSessions, input,
                            isLoading, currentSessionId, calls, store, nextId>>
        /\ ToggleHistory =>
             /\ isHistoryOpen' = ~isHistoryOpen
             /\ UNCHANGED <<isOpen, isMaximized, messages, chatSessions, input,
                            isLoading, currentSessionId, calls, store, nextId>>
       ]_vars

C25_Witness ==
    /\ isOpen /\ user # NoUser
    /\ isMaximized /\ isHistoryOpen
    /\ ops = 1
    /\ \E c \in calls :
         c.op = "fetch" /\ c.n = 1 /\ c.stage = "main" /\ c.st = "sent"

====
